---- MODULE Spec2Model ----
(***************************************************************************)
(* The in-memory retrieval path of "Document Embeddings and Vector         *)
(* DB.ipynb": embed_documents builds the array doc_embeddings, and          *)
(* retrieve_relevant_documents ranks its rows by cosine similarity to a    *)
(* query vector.                                                            *)
(*                                                                         *)
(* Arrays are sequences of rows, rows are sequences of integers; sequence  *)
(* positions are 1-based where numpy's are 0-based.  A cosine is held      *)
(* exactly, as the signed square  sgn(d.q) * (d.q)^2 / (|d|^2 * |q|^2)  in  *)
(* lowest terms, which orders and equates cosines exactly as the reals     *)
(* do; 0/0 is NaN as in IEEE arithmetic.  Rounding of the floating-point   *)
(* division and square roots is not modelled.                              *)
(*                                                                         *)
(* The PGVector cells (from_documents, add_documents,                      *)
(* similarity_search_with_score) call into LangChain and PostgreSQL; none  *)
(* of that code is in the notebook and it is not modelled.                 *)
(***************************************************************************)
EXTENDS Integers, Sequences, FiniteSets

\* Largest number of documents handed to embed_documents.
MaxDocs == 5

\* Largest k passed to retrieve_relevant_documents.
MaxK == 2

\* Embeddings the provider may return for a text.  <<1>> has another length
\* than the rest and <<0, 0>> has norm 0.
Vecs == { <<0, 0>>, <<1, 0>>, <<-1, 1>>, <<1>> }

VARIABLES
    sample_docs,      \* module-level list of document texts (lines 168-173)
    docs,             \* the texts handed to embed_documents (175, 206)
    embedded,         \* what the embedding provider returned to embed_documents (177)
    build_raised,     \* "unrun", "none", or the exception embed_documents raised
    doc_embeddings,   \* [bound, rows]: the module-level array, once assigned (206)
    query_embedding,  \* the query vector of the last call, <<>> before any (227)
    k_arg,            \* the k of the last call, 0 before any (229)
    relevant_docs,    \* [raised, entries]: outcome of the last call (229)
    repeat,           \* the last call had the arguments of the call before it
    argsort_ties      \* how this numpy build's argsort orders equal keys (186)

vars == << sample_docs, docs, embedded, build_raised, doc_embeddings,
           query_embedding, k_arg, relevant_docs, repeat, argsort_ties >>

----------------------------------------------------------------------------
\* Helpers

Min(a, b) == IF a < b THEN a ELSE b

Abs(x) == IF x < 0 THEN -x ELSE x

RECURSIVE GCD(_, _)
GCD(a, b) == IF b = 0 THEN a ELSE GCD(b, a % b)

Reverse(s) == [i \in 1..Len(s) |-> s[Len(s) + 1 - i]]

\* s[:k] for k >= 0
Take(s, k) == SubSeq(s, 1, Min(k, Len(s)))

\* All sequences over S of length 0..n
SeqsUpTo(S, n) == UNION { [1..m -> S] : m \in 0..n }

----------------------------------------------------------------------------
\* numpy

\* np.array(list of rows): an empty list gives the 1-D array of shape (0,),
\* rows of one length a 2-D array, rows of differing lengths a ValueError
\* (inhomogeneous shape; numpy 1.24 and later).
np_array(rows) ==
    IF \E i, j \in 1..Len(rows) : Len(rows[i]) # Len(rows[j])
    THEN [raised |-> "ValueError", rows |-> << >>]
    ELSE [raised |-> "none", rows |-> rows]

\* shape of an array held as a sequence of equally long rows
Shape(a) == IF Len(a) = 0 THEN << 0 >> ELSE << Len(a), Len(a[1]) >>

\* the contracted axis of  a @ q  for a 1-D q
CoreDim(a) == Shape(a)[Len(Shape(a))]

RECURSIVE DotTo(_, _, _)
DotTo(u, v, n) == IF n = 0 THEN 0 ELSE u[n] * v[n] + DotTo(u, v, n - 1)

Dot(u, v) == DotTo(u, v, Len(u))

\* np.linalg.norm(v) squared
NormSq(v) == Dot(v, v)

NaN == [nan |-> TRUE, num |-> 0, den |-> 0]

Frac(n, d) == LET g == GCD(Abs(n), d) IN [nan |-> FALSE, num |-> n \div g, den |-> d \div g]

\* (d @ q) / (norm(d) * norm(q)) for one row d.  A norm of 0 makes the dot
\* product 0 as well, so the float division is 0/0 = NaN (numpy warns, it
\* does not raise).
Cosine(d, q) ==
    LET dot == Dot(d, q)
        den == NormSq(d) * NormSq(q)
    IN  IF den = 0 THEN NaN
        ELSE Frac((IF dot < 0 THEN -1 ELSE 1) * dot * dot, den)

\* IEEE comparisons: every comparison with NaN is false
Lt(a, b) == ~a.nan /\ ~b.nan /\ a.num * b.den < b.num * a.den
Geq(a, b) == ~a.nan /\ ~b.nan /\ a.num * b.den >= b.num * a.den
Eq(a, b) == ~a.nan /\ ~b.nan /\ a.num * b.den = b.num * a.den

\* the order np.sort and np.argsort use: ascending, NaN after every number
SortsBefore(a, b) == ~a.nan /\ (b.nan \/ a.num * b.den < b.num * a.den)

\* the permutation that lists positions by rank
by_rank(rank, n) == [r \in 1..n |-> CHOOSE i \in 1..n : rank[i] = r - 1]

\* how many keys of a go before a[i] when equal keys are taken in ascending
\* (or descending) order of position
ranks(a, ascending) ==
    [i \in 1..Len(a) |->
        Cardinality({ j \in 1..Len(a) :
            \/ SortsBefore(a[j], a[i])
            \/ ~SortsBefore(a[i], a[j]) /\ (IF ascending THEN j < i ELSE j > i) })]

\* A sort whose order of equal keys changes from one call to the next.
argsort_unstable_per_call(a) ==
    by_rank(ranks(a, (relevant_docs.raised = "unset") = (argsort_ties = "ascending")), Len(a))

\* np.argsort(a), kind = quicksort: the positions of a in ascending order of
\* key.  The sort is not stable: where equal keys land is fixed by the numpy
\* build (argsort_ties), the same on every call.
argsort(a) == by_rank(ranks(a, argsort_ties = "ascending"), Len(a))

----------------------------------------------------------------------------
\* The notebook's functions

\* The lists of n texts that embed_documents may be handed: the texts of
\* sample_docs from its first or from its second on, followed by texts that
\* are not in sample_docs.
DocLists(n) ==
    { [i \in 1..n |-> IF i + s <= Len(sample_docs) THEN sample_docs[i + s] ELSE "Goats"] :
        s \in 0..1 }

\* embed_documents(docs): np.array of what the provider returned
embed_documents(provided) == np_array(provided)

\* cosine_similarities of retrieve_relevant_documents
cosine_similarities(doc_embs, query_emb) ==
    [i \in 1..Len(doc_embs) |-> Cosine(doc_embs[i], query_emb)]

\* sim_scores[::-1][:k]
top_k(cosine_sims, k) == Take(Reverse(argsort(cosine_sims)), k)

\* the list comprehension of retrieve_relevant_documents:
\* sample_docs[i] raises IndexError for a row past the end of sample_docs
result_list(cosine_sims, top) ==
    IF \E r \in 1..Len(top) : top[r] > Len(sample_docs)
    THEN [raised |-> "IndexError", entries |-> << >>]
    ELSE [raised |-> "none",
          entries |-> [r \in 1..Len(top) |->
                         [document |-> sample_docs[top[r]], score |-> cosine_sims[top[r]]]]]

\* sim_scores and the return statement
rank_and_list(cosine_sims, k) == result_list(cosine_sims, top_k(cosine_sims, k))

\* The products taken in place (doc_embeddings *= query_embedding) instead of
\* by doc_embeddings @ query_embedding: the caller's array is overwritten.
retrieve_in_place(doc_embs, query_emb, k) ==
    IF CoreDim(doc_embs) # Len(query_emb)
    THEN [ret |-> [raised |-> "ValueError", entries |-> << >>], doc_embeddings |-> doc_embs]
    ELSE [ret |-> rank_and_list(cosine_similarities(doc_embs, query_emb), k),
          doc_embeddings |-> [i \in 1..Len(doc_embs) |->
                                [c \in 1..Len(query_emb) |-> doc_embs[i][c] * query_emb[c]]]]

\* retrieve_relevant_documents(doc_embeddings, query_embedding, k): what it
\* returns or raises (ret), and the caller's array after the call (numpy arrays
\* are passed by reference).  doc_embeddings @ query_embedding raises
\* ValueError unless the last axis of doc_embeddings has the length of
\* query_embedding.
retrieve_relevant_documents(doc_embs, query_emb, k) ==
    IF CoreDim(doc_embs) # Len(query_emb)
    THEN [ret |-> [raised |-> "ValueError", entries |-> << >>], doc_embeddings |-> doc_embs]
    ELSE [ret |-> rank_and_list(cosine_similarities(doc_embs, query_emb), k),
          doc_embeddings |-> doc_embs]

----------------------------------------------------------------------------
\* The cells

Init ==
    /\ sample_docs = << "Pigs", "Cows", "Chickens", "NumPy" >>
    /\ docs = << >>
    /\ embedded = << >>
    /\ build_raised = "unrun"
    /\ doc_embeddings = [bound |-> FALSE, rows |-> << >>]
    /\ query_embedding = << >>
    /\ k_arg = 0
    /\ relevant_docs = [raised |-> "unset", entries |-> << >>]
    /\ repeat = FALSE
    /\ argsort_ties \in { "ascending", "descending" }

\* doc_embeddings = embed_documents(docs): the provider returns one row for
\* each text, and the name is bound only if embed_documents returns.
Build ==
    /\ build_raised = "unrun"
    /\ \E provided \in SeqsUpTo(Vecs, MaxDocs) :
         LET made == embed_documents(provided)
         IN  /\ docs' \in DocLists(Len(provided))
             /\ embedded' = provided
             /\ build_raised' = made.raised
             /\ doc_embeddings' = IF made.raised = "none"
                                  THEN [bound |-> TRUE, rows |-> made.rows]
                                  ELSE doc_embeddings
    /\ UNCHANGED << sample_docs, query_embedding, k_arg, relevant_docs, repeat, argsort_ties >>

\* query_embedding = embed_query(...)
\* relevant_docs = retrieve_relevant_documents(doc_embeddings, query_embedding, k)
\* the effect of the call on the module's names
Returns(q, k, call) ==
    /\ query_embedding' = q
    /\ k_arg' = k
    /\ relevant_docs' = call.ret
    /\ doc_embeddings' = [doc_embeddings EXCEPT !.rows = call.doc_embeddings]
    /\ repeat' = (relevant_docs.raised # "unset" /\ q = query_embedding /\ k = k_arg)

Query ==
    /\ doc_embeddings.bound
    /\ \E q \in Vecs, k \in 1..MaxK :
         Returns(q, k, retrieve_relevant_documents(doc_embeddings.rows, q, k))
    /\ UNCHANGED << sample_docs, docs, embedded, build_raised, argsort_ties >>

Next == Build \/ Query

Spec == Init /\ [][Next]_vars

----------------------------------------------------------------------------
\* Vocabulary of the properties

\* a call of retrieve_relevant_documents has been made
Called == relevant_docs.raised # "unset"

\* the last call returned a list
Returned == relevant_docs.raised = "none"

\* the stored rows and their number
Rows == doc_embeddings.rows
N == Len(doc_embeddings.rows)
Entries == relevant_docs.entries

\* the last call was made on a non-empty index with a query of its dimension
InScope == Called /\ N >= 1 /\ Len(query_embedding) = Len(Rows[1])

\* the similarity of stored row i to the last query
ScoreOf(i) == Cosine(Rows[i], query_embedding)

\* the insertion position of the record an entry names
PositionOf(entry) == CHOOSE i \in 1..Len(sample_docs) : sample_docs[i] = entry.document

ZeroScore == [nan |-> FALSE, num |-> 0, den |-> 1]

Ragged(rows) == \E i, j \in 1..Len(rows) : Len(rows[i]) # Len(rows[j])

\* A step of Query: Build is the only other action, and it always changes
\* build_raised.
QueryStep == build_raised' = build_raised /\ vars' # vars

----------------------------------------------------------------------------
\* C1: on a non-empty index of n rows of one dimension, a call with a query of
\* that dimension and k >= 1 returns (does not raise) exactly min(k, n)
\* entries in non-increasing order of score, each among the k highest scores
\* of the index, and every record when k >= n.
C1_TopKRanked ==
    InScope =>
        /\ Returned
        /\ Len(Entries) = Min(k_arg, N)
        /\ \A r \in 1..(Len(Entries) - 1) : Geq(Entries[r].score, Entries[r + 1].score)
        /\ \A r \in 1..Len(Entries) :
             Cardinality({ i \in 1..N : Lt(Entries[r].score, ScoreOf(i)) }) < k_arg
        /\ k_arg >= N =>
             \A i \in 1..N : \E r \in 1..Len(Entries) : PositionOf(Entries[r]) = i

\* C2: of two stored records with equal similarity to the query, the later
\* inserted one is returned only below the earlier inserted one.
C2_TiesByInsertionOrder ==
    (InScope /\ Returned) =>
        \A a, b \in 1..N :
            (/\ a < b
             /\ Eq(ScoreOf(a), ScoreOf(b))
             /\ \E r \in 1..Len(Entries) : PositionOf(Entries[r]) = b)
            => \E ra, rb \in 1..Len(Entries) :
                 /\ ra < rb
                 /\ PositionOf(Entries[ra]) = a
                 /\ PositionOf(Entries[rb]) = b

\* C3: when the query or a stored row has norm 0, the call returns, no
\* returned score is NaN, and the score of every pair with a zero norm is
\* exactly 0.  (Stated for indexes no longer than sample_docs, where the call
\* does not fail for the length alone.)
C3_ZeroNormScoresZero ==
    (/\ InScope
     /\ N <= Len(sample_docs)
     /\ \/ NormSq(query_embedding) = 0
        \/ \E i \in 1..N : NormSq(Rows[i]) = 0)
    => /\ Returned
       /\ \A r \in 1..Len(Entries) :
            /\ ~Entries[r].score.nan
            /\ (\/ NormSq(query_embedding) = 0
                \/ NormSq(Rows[PositionOf(Entries[r])]) = 0)
               => Entries[r].score = ZeroScore

\* C4: a call on an index of zero records fails with EmptyIndexError.
C4_EmptyIndexError ==
    (Called /\ N = 0) => relevant_docs.raised = "EmptyIndexError"

\* C5: a build whose rows differ in length, and a call whose query has another
\* length than the rows of the index, fail with DimensionMismatchError.
C5_DimensionMismatchError ==
    /\ Ragged(embedded) => build_raised = "DimensionMismatchError"
    /\ (Called /\ N >= 1 /\ Len(query_embedding) # Len(Rows[1]))
         => relevant_docs.raised = "DimensionMismatchError"

\* C8: no call of retrieve_relevant_documents, returning or raising, changes
\* the stored rows, their order or the document texts.
C8_QueryReadOnly ==
    [][QueryStep => /\ doc_embeddings' = doc_embeddings
                    /\ sample_docs' = sample_docs
                    /\ embedded' = embedded]_vars

\* C8 witness: a call has returned entries and the index is the one built.
C8_Witness ==
    /\ Returned
    /\ Len(Entries) >= 1
    /\ doc_embeddings.rows = embedded

C11_SelfSimilarity ==
    (/\ InScope
     /\ k_arg = 1
     /\ NormSq(query_embedding) # 0
     /\ \E i \in 1..N : Rows[i] = query_embedding)
    => /\ Returned
       /\ Len(Entries) = 1
       /\ Entries[1].score = [nan |-> FALSE, num |-> 1, den |-> 1]
       /\ \A i \in 1..N :
            Rows[i] = query_embedding
            => \/ PositionOf(Entries[1]) = i
               \/ \E j \in 1..(i - 1) : Eq(ScoreOf(j), ScoreOf(i))

\* C12: every returned entry is built from one row of doc_embeddings, a
\* different row for each entry, and carries the text that row was embedded
\* from together with the similarity of that row.
C12_EntryPairsDocumentWithItsScore ==
    Returned =>
        \E from \in [1..Len(Entries) -> 1..N] :
            /\ \A r1, r2 \in 1..Len(Entries) : from[r1] = from[r2] => r1 = r2
            /\ \A r \in 1..Len(Entries) :
                 /\ Entries[r].document = docs[from[r]]
                 /\ Entries[r].score = ScoreOf(from[r])

====
